---- MODULE Spec2Model ----
(***************************************************************************)
(* Model of AuthController (src/api/components/global/auth/controller.ts). *)
(*                                                                         *)
(* The handlers signinUser, validateRegistrationHash, registerUser,        *)
(* createUserInvitation and unregisterUser are translated from the         *)
(* controller.  The collaborators they call (user store, invitation        *)
(* store, cache, mail sender, credential utility, token service) live      *)
(* outside the controller; they are modelled from their documented         *)
(* contracts: a store is a set of records, read(filter) returns one record *)
(* matching the filter or undefined, save adds a record, delete removes    *)
(* it, and any call may throw instead of taking effect.                    *)
(*                                                                         *)
(* An optional value (User | undefined) is a set with at most one element. *)
(* Payload fields without influence on control flow (firstname, lastname)  *)
(* are left out of the user record.                                        *)
(***************************************************************************)
EXTENDS Integers, Sequences, FiniteSets, TLC

\* Bounds of the model.
MaxHash == 2          \* invitations that can be issued in one behaviour
MaxUid == 2           \* users that can be saved in one behaviour
MaxReq == 2           \* registerUser requests that can be in flight at once

VARIABLES
    users,        \* user store: set of user records
    invitations,  \* invitation store: set of [email, hash]
    nextHash,     \* source of fresh registration hashes
    nextId,       \* source of fresh user ids
    out,          \* the last completed request and what its handler did
    reqs          \* registerUser requests in flight (interleaved execution)

vars == <<users, invitations, nextHash, nextId, out, reqs>>
stores == <<users, invitations, nextHash, nextId>>

----------------------------------------------------------------------------
\* Request inputs

Undefined == "<undefined>"
ValidEmails == {"a@x.com", "b@x.com"}
EmailInputs == ValidEmails \cup {"", "nomail"}       \* "" : missing
SigninEmails == ValidEmails \cup {""}
RegisterEmails == ValidEmails \cup {""}
PasswordInputs == {"", "p1", "p2"}                    \* "" : missing
RegisterPasswords == {"p1"}
Hashes == 1 .. MaxHash
HashInputs == {0} \cup Hashes                         \* 0 : missing
ActiveInputs == {"absent", "false"}                  \* payload field active
ReqIds == 1 .. MaxReq

----------------------------------------------------------------------------
\* Collaborators

isEmail(email) == email \in ValidEmails

hashPassword(password) == <<"bcrypt", password>>

verifyPassword(password, stored) == stored = hashPassword(password)

createToken(id) == <<"jwt", id>>

generateUuid == nextHash

\* All records of a store that match every field of the filter.
Matching(table, where) ==
    {r \in table : \A k \in DOMAIN where : r[k] = where[k]}

\* read(filter) -> record | undefined
FindOne(table, where) ==
    IF Matching(table, where) = {} THEN {{}}
    ELSE {{r} : r \in Matching(table, where)}

\* save(partial) -> User: the supplied fields, a fresh id, active by default
SaveUser(partial, id) ==
    [id       |-> id,
     email    |-> partial.email,
     password |-> partial.password,
     active   |-> IF partial.active = "absent" THEN TRUE ELSE partial.active = "true",
     userRole |-> partial.userRole]

\* sendUserInvitation(email, hash): the mail that goes out
CreateMail(email, hash) == [email |-> email, hash |-> hash]

DeleteRecord(table, record) == table \ {record}

----------------------------------------------------------------------------
\* What a handler leaves behind: the request, the response written with res
\* (status 0: none written), the errors passed to next, the cache keys it
\* deleted with cacheService.delete and the mails it sent.

Request(op, hash, email, password, payload, active) ==
    [op |-> op, hash |-> hash, email |-> email, password |-> password,
     payload |-> payload, active |-> active]

Outcome(req, status, error, data, nexted, deleted, mailed) ==
    [req |-> req, status |-> status, error |-> error, data |-> data,
     nexted |-> nexted, deleted |-> deleted, mailed |-> mailed]

\* res.status(code).json({ status: code, error })
Respond(req, status, error) ==
    out' = Outcome(req, status, error, {}, <<>>, {}, {})

\* res.status(204).send(), after the effects the handler had
RespondEmpty(req, deleted, mailed) ==
    out' = Outcome(req, 204, "", {}, <<>>, deleted, mailed)

\* faulty variant: the catch block also writes a 500 response
ForwardAndRespond(req, err, deleted, mailed) ==
    out' = Outcome(req, 500, "", {}, <<err>>, deleted, mailed)

\* catch (err) { return next(err); }, after the effects the handler had
Forward(req, err, deleted, mailed) ==
    out' = Outcome(req, 0, "", {}, <<err>>, deleted, mailed)

NoRequest ==
    Outcome(Request("none", 0, "", "", FALSE, "absent"), 0, "", {}, <<>>, {}, {})

----------------------------------------------------------------------------
\* getUserInvitation: the filter handed to readUserInvitation

\* faulty variant: the email is left out of the filter
getUserInvitationByHash(hash, email) == [hash |-> hash]

getUserInvitation(hash, email) ==
    IF email = Undefined THEN [hash |-> hash]
    ELSE [hash |-> hash, email |-> email]

----------------------------------------------------------------------------
\* signinUser

SigninFilter(email) == [email |-> email, active |-> TRUE]

SigninSelect == {"id", "email", "firstname", "lastname", "password"}

Select(record, fields) ==
    [f \in (DOMAIN record) \cap fields |-> record[f]]

\* faulty variant: the password is not deleted from the response
SigninUserBodyWithPassword(user) == Select(user, SigninSelect)

SigninUserBody(user) ==
    LET selected == Select(user, SigninSelect)
    IN  [f \in (DOMAIN selected) \ {"password"} |-> selected[f]]

SigninInvalid(email, password) == email = "" \/ password = ""

SigninData(user) ==
    [user |-> SigninUserBody(user), token |-> createToken(user.id)]

SigninRejected(found, password, stored) ==
    found = {} \/ ~verifyPassword(password, stored)

SigninUser(payload, email, password) ==
    LET req == Request("signinUser", 0, email, password, payload, "absent")
    IN  /\ UNCHANGED <<stores, reqs>>
        /\ IF ~payload THEN Forward(req, "TypeError", {}, {})
           ELSE IF SigninInvalid(email, password) THEN Respond(req, 400, "Invalid request")
           ELSE \/ Forward(req, "read", {}, {})
                \/ \E found \in FindOne(users, SigninFilter(email)) :
                     LET user == CHOOSE u \in found : TRUE
                         stored == IF found = {} THEN <<>>
                                   ELSE Select(user, SigninSelect).password
                     IN  \/ found # {} /\ Forward(req, "verifyPassword", {}, {})
                         \/ IF SigninRejected(found, password, stored)
                            THEN Respond(req, 401, "Wrong email or password")
                            ELSE \/ Forward(req, "createToken", {}, {})
                                 \/ out' = Outcome(req, 200, "", {SigninData(user)}, <<>>, {}, {})

----------------------------------------------------------------------------
\* validateRegistrationHash

\* faulty variant: the lookup result is ignored
ValidateStatusAlways(invitation) == 204

ValidateStatus(invitation) == IF invitation # {} THEN 204 ELSE 403

ValidateRegistrationHash(hash) ==
    LET req == Request("validateRegistrationHash", hash, Undefined, "", FALSE, "absent")
    IN  /\ UNCHANGED <<stores, reqs>>
        /\ IF hash = 0 THEN Respond(req, 400, "Invalid request")
           ELSE \/ Forward(req, "readUserInvitation", {}, {})
                \/ \E invitation \in FindOne(invitations, getUserInvitation(hash, Undefined)) :
                     IF ValidateStatus(invitation) = 204 THEN RespondEmpty(req, {}, {})
                     ELSE Respond(req, ValidateStatus(invitation), "Invalid hash")

----------------------------------------------------------------------------
\* registerUser

RegisterInvalid(payload, email) == email = "" \/ ~payload

\* faulty variant: the user found is ignored
RegisterEmailNeverTaken(user) == FALSE

RegisterEmailTaken(user) == user # {}

RegisterPayload(email, password, active) ==
    [email    |-> email,
     active   |-> active,
     password |-> hashPassword(password),
     userRole |-> [id |-> 1, name |-> "User"]]

\* faulty variant: the invitation is not deleted
RegisterKeepInvitation(invitation) == invitations

RegisterRemoveInvitation(invitation) == DeleteRecord(invitations, invitation)

RegisterUser(payload, hash, email, password, active) ==
    LET req == Request("registerUser", hash, email, password, payload, active)
        untouched == UNCHANGED <<users, invitations, nextId>>
    IN  /\ UNCHANGED <<nextHash, reqs>>
        /\ IF ~payload THEN Forward(req, "TypeError", {}, {}) /\ untouched
           ELSE IF RegisterInvalid(payload, email)
           THEN Respond(req, 400, "Invalid request") /\ untouched
           ELSE
             \/ Forward(req, "readUserInvitation", {}, {}) /\ untouched
             \/ \E found \in FindOne(invitations, getUserInvitation(hash, email)) :
                  IF found = {}
                  THEN Respond(req, 403, "Invalid hash") /\ untouched
                  ELSE
                    \/ Forward(req, "read", {}, {}) /\ untouched
                    \/ \E user \in FindOne(users, [email |-> email]) :
                         IF RegisterEmailTaken(user)
                         THEN Respond(req, 400, "Email is already taken") /\ untouched
                         ELSE
                           \/ Forward(req, "hashPassword", {}, {}) /\ untouched
                           \/ Forward(req, "save", {}, {}) /\ untouched
                           \/ /\ nextId <= MaxUid
                              /\ users' = users \cup
                                   {SaveUser(RegisterPayload(email, password, active), nextId)}
                              /\ nextId' = nextId + 1
                              /\ \/ Forward(req, "deleteUserInvitation", {"user"}, {})
                                    /\ UNCHANGED invitations
                                 \/ /\ invitations' =
                                         RegisterRemoveInvitation(CHOOSE i \in found : TRUE)
                                    /\ RespondEmpty(req, {"user"}, {})

----------------------------------------------------------------------------
\* createUserInvitation

\* faulty variant: the email format is not validated
CreateInvalidIfMissing(email) == email = ""

CreateInvalid(email) == email = "" \/ ~isEmail(email)

CreateEmailTaken(user) == user # {}

CreateUserInvitation(email) ==
    LET req == Request("createUserInvitation", 0, email, "", FALSE, "absent")
        untouched == UNCHANGED <<invitations, nextHash>>
    IN  /\ UNCHANGED <<users, nextId, reqs>>
        /\ IF CreateInvalid(email)
           THEN Respond(req, 400, "Invalid request") /\ untouched
           ELSE
             \/ Forward(req, "read", {}, {}) /\ untouched
             \/ \E user \in FindOne(users, [email |-> email]) :
                  IF CreateEmailTaken(user)
                  THEN Respond(req, 400, "Email is already taken") /\ untouched
                  ELSE LET hash == generateUuid
                           sent == [req EXCEPT !.hash = hash]
                       IN  \/ Forward(req, "saveUserInvitation", {}, {}) /\ untouched
                           \/ /\ nextHash <= MaxHash
                              /\ nextHash' = nextHash + 1
                              /\ invitations' = invitations \cup
                                     {[email |-> email, hash |-> hash]}
                              /\ \/ Forward(sent, "sendUserInvitation", {}, {})
                                 \/ RespondEmpty(sent, {}, {CreateMail(email, hash)})

----------------------------------------------------------------------------
\* unregisterUser

\* faulty variant: the user is not deleted
UnregisterKeepUser(user) == users

UnregisterRemoveUser(user) == DeleteRecord(users, user)

UnregisterUser(email) ==
    LET req == Request("unregisterUser", 0, email, "", FALSE, "absent")
    IN  /\ UNCHANGED <<invitations, nextHash, nextId, reqs>>
        /\ IF email = ""
           THEN Respond(req, 400, "Invalid request") /\ UNCHANGED users
           ELSE
             \/ Forward(req, "read", {}, {}) /\ UNCHANGED users
             \/ \E found \in FindOne(users, [email |-> email]) :
                  IF found = {}
                  THEN Respond(req, 404, "User not found") /\ UNCHANGED users
                  ELSE
                    \/ Forward(req, "delete", {}, {}) /\ UNCHANGED users
                    \/ /\ users' = UnregisterRemoveUser(CHOOSE u \in found : TRUE)
                       /\ RespondEmpty(req, {"user"}, {})

----------------------------------------------------------------------------

\* registerUser, one step per awaited call: between two awaits of one request
\* the steps of other requests may run.

Idle == [pc |-> "idle", req |-> NoRequest.req, invitation |-> {},
         status |-> 0, error |-> "", nexted |-> <<>>, deleted |-> {}]

Done(r, status, error, nexted) ==
    [reqs[r] EXCEPT !.pc = "done", !.status = status, !.error = error,
                    !.nexted = nexted]

\* the request arrives: destructuring, validation, the invitation lookup is issued
RegisterBegin(r, payload, hash, email, password, active) ==
    LET req == Request("registerUser", hash, email, password, payload, active)
        begun == [Idle EXCEPT !.req = req]
    IN  /\ reqs[r].pc = "idle"
        /\ reqs' = [reqs EXCEPT ![r] =
              IF ~payload
              THEN [begun EXCEPT !.pc = "done", !.nexted = <<"TypeError">>]
              ELSE IF RegisterInvalid(payload, email)
              THEN [begun EXCEPT !.pc = "done", !.status = 400,
                                 !.error = "Invalid request"]
              ELSE [begun EXCEPT !.pc = "readUserInvitation"]]
        /\ UNCHANGED <<stores, out>>

\* await this.getUserInvitation(hash, email)
RegisterReadInvitation(r) ==
    /\ reqs[r].pc = "readUserInvitation"
    /\ \E found \in FindOne(invitations,
                            getUserInvitation(reqs[r].req.hash, reqs[r].req.email)) :
         reqs' = [reqs EXCEPT ![r] =
            IF found = {} THEN Done(r, 403, "Invalid hash", <<>>)
            ELSE [reqs[r] EXCEPT !.pc = "read", !.invitation = found]]
    /\ UNCHANGED <<stores, out>>

\* await this.userService.read({ where: { email } })
RegisterReadUser(r) ==
    /\ reqs[r].pc = "read"
    /\ \E user \in FindOne(users, [email |-> reqs[r].req.email]) :
         reqs' = [reqs EXCEPT ![r] =
            IF RegisterEmailTaken(user) THEN Done(r, 400, "Email is already taken", <<>>)
            ELSE [reqs[r] EXCEPT !.pc = "hashPassword"]]
    /\ UNCHANGED <<stores, out>>

\* await UtilityService.hashPassword(password)
RegisterHashPassword(r) ==
    /\ reqs[r].pc = "hashPassword"
    /\ reqs' = [reqs EXCEPT ![r].pc = "save"]
    /\ UNCHANGED <<stores, out>>

\* await this.userService.save(...); this.cacheService.delete('user')
RegisterSave(r) ==
    /\ reqs[r].pc = "save"
    /\ users' = users \cup
          {SaveUser(RegisterPayload(reqs[r].req.email, reqs[r].req.password,
                                    reqs[r].req.active), nextId)}
    /\ nextId' = nextId + 1
    /\ reqs' = [reqs EXCEPT ![r].pc = "deleteUserInvitation",
                            ![r].deleted = {"user"}]
    /\ UNCHANGED <<invitations, nextHash, out>>

\* await this.userInvService.deleteUserInvitation(invitation); 204
RegisterDeleteInvitation(r) ==
    /\ reqs[r].pc = "deleteUserInvitation"
    /\ invitations' = RegisterRemoveInvitation(CHOOSE i \in reqs[r].invitation : TRUE)
    /\ reqs' = [reqs EXCEPT ![r] = Done(r, 204, "", <<>>)]
    /\ UNCHANGED <<users, nextHash, nextId, out>>

\* the awaited call throws: catch (err) { return next(err); }
RegisterThrow(r) ==
    /\ reqs[r].pc \in {"readUserInvitation", "read", "hashPassword", "save",
                       "deleteUserInvitation"}
    /\ reqs' = [reqs EXCEPT ![r] = Done(r, 0, "", <<reqs[r].pc>>)]
    /\ UNCHANGED <<stores, out>>

----------------------------------------------------------------------------

Init ==
    /\ users = {}
    /\ invitations = {}
    /\ nextHash = 1
    /\ nextId = 1
    /\ out = NoRequest
    /\ reqs = [r \in ReqIds |-> Idle]

Next ==
    \/ \E payload \in BOOLEAN, email \in SigninEmails, password \in PasswordInputs :
          /\ payload \/ (email = "" /\ password = "")
          /\ SigninUser(payload, email, password)
    \/ \E hash \in HashInputs : ValidateRegistrationHash(hash)
    \/ \E payload \in BOOLEAN, hash \in Hashes, email \in RegisterEmails,
          password \in RegisterPasswords, active \in ActiveInputs :
          /\ payload \/ hash = 1
          /\ email = "" => active = "absent"
          /\ RegisterUser(payload, hash, email, password, active)
    \/ \E email \in EmailInputs : CreateUserInvitation(email)
    \/ \E email \in SigninEmails : UnregisterUser(email)

Spec == Init /\ [][Next]_vars

\* Requests served concurrently: registerUser interleaves at its awaits.
NextConc ==
    \/ \E email \in ValidEmails : CreateUserInvitation(email)
    \/ \E r \in ReqIds, payload \in BOOLEAN, hash \in Hashes, email \in RegisterEmails :
          /\ payload \/ (hash = 1 /\ email = "")
          /\ RegisterBegin(r, payload, hash, email, "p1", "absent")
    \/ \E r \in ReqIds : RegisterReadInvitation(r)
    \/ \E r \in ReqIds : RegisterReadUser(r)
    \/ \E r \in ReqIds : RegisterHashPassword(r)
    \/ \E r \in ReqIds : RegisterSave(r)
    \/ \E r \in ReqIds : RegisterDeleteInvitation(r)
    \/ \E r \in ReqIds : RegisterThrow(r)

SpecConc == Init /\ [][NextConc]_vars

----------------------------------------------------------------------------
\* Vocabulary of the properties

Invitation(hash, email) == [email |-> email, hash |-> hash]

Owned(us, email) == \E u \in us : u.email = email

OwnedActive(us, email) == \E u \in us : u.email = email /\ u.active

\* The step taken is the handler op serving a request (out' is its outcome).
Step(op) == out'.req.op = op

\* The step's handler returned without any collaborator call throwing.
Returned == out'.nexted = <<>>

\* The step is a registerUser request with a user payload and an email.
RegisterStep == Step("registerUser") /\ out'.req.payload /\ out'.req.email # ""

\* The step repeats the registerUser request that was served last.
RegisterRepeated ==
    /\ out.req.op = "registerUser"
    /\ RegisterStep
    /\ out'.req.hash = out.req.hash
    /\ out'.req.email = out.req.email

----------------------------------------------------------------------------
\* C1

\* the second of two registerUser requests in a row for the same hash and
\* email, the first of which responded 204, responds 403 'Invalid hash' (or
\* forwards the error of its invitation lookup) and changes nothing
C1_SecondRejected ==
    (RegisterRepeated /\ out.status = 204) =>
        /\ out'.status \in {403, 0}
        /\ out'.status = 403 => out'.error = "Invalid hash"
        /\ out'.status = 0 => out'.nexted = <<"readUserInvitation">>
        /\ UNCHANGED stores

\* C1 as stated: for any stored invitation (h, e), the first registerUser
\* request for h and e responds 204 and a second one right after it responds
\* 403 'Invalid hash'.
C1_Original ==
    [][ /\ (RegisterStep /\ Returned
              /\ Invitation(out'.req.hash, out'.req.email) \in invitations)
            => out'.status = 204
        /\ (RegisterRepeated /\ Returned /\ out.status = 204)
            => (out'.status = 403 /\ out'.error = "Invalid hash") ]_vars

\* C1 as amended: for a stored invitation (h, e), a registerUser request for h
\* and e whose collaborator calls succeed responds 204 and deletes the
\* invitation if no user owns e, and responds 400 'Email is already taken' if a
\* user owns e; whenever the first of two such requests in a row responds 204,
\* the second responds 403 'Invalid hash', so at most one of the two succeeds.
C1_Amended ==
    [][ /\ (RegisterStep /\ Returned
              /\ Invitation(out'.req.hash, out'.req.email) \in invitations)
            => IF Owned(users, out'.req.email)
               THEN out'.status = 400 /\ out'.error = "Email is already taken"
               ELSE /\ out'.status = 204
                    /\ Invitation(out'.req.hash, out'.req.email) \notin invitations'
        /\ C1_SecondRejected
        /\ RegisterRepeated => ~(out.status = 204 /\ out'.status = 204) ]_vars

\* a repeated registration was rejected with 403: its hash was issued, the
\* invitation is gone and the email is registered
C1_Witness ==
    /\ out.req.op = "registerUser"
    /\ out.status = 403
    /\ out.req.hash < nextHash
    /\ \A i \in invitations : i.hash # out.req.hash
    /\ Owned(users, out.req.email)

----------------------------------------------------------------------------
\* C2

\* C2 as stated: every registerUser request whose email is owned by an active
\* user is answered 400, with or without a matching invitation.
C2_Original ==
    [][ (RegisterStep /\ Returned /\ OwnedActive(users, out'.req.email))
            => out'.status = 400 ]_vars

\* C2 as amended: a registerUser request whose email is owned by an active user
\* is answered 400 'Email is already taken' when an invitation matching its
\* hash and email exists, and 403 'Invalid hash' when none does; either way it
\* changes nothing.
C2_Amended ==
    [][ (RegisterStep /\ Returned /\ OwnedActive(users, out'.req.email))
            => /\ IF Invitation(out'.req.hash, out'.req.email) \in invitations
                  THEN out'.status = 400 /\ out'.error = "Email is already taken"
                  ELSE out'.status = 403 /\ out'.error = "Invalid hash"
               /\ UNCHANGED stores ]_vars

\* a registration was refused with 400 although its invitation is valid
C2_Witness ==
    /\ out.req.op = "registerUser"
    /\ out.status = 400
    /\ out.error = "Email is already taken"
    /\ Invitation(out.req.hash, out.req.email) \in invitations
    /\ OwnedActive(users, out.req.email)

----------------------------------------------------------------------------
\* C3: registerUser creates a user and responds 204 only if an invitation
\* with the request's hash and email exists and no user has that email; in
\* every other case in which no call throws it responds 403 (no such
\* invitation) or 400 (email taken) and leaves the user store, the invitation
\* store and the cache as they were.
C3_RegistrationGuard ==
    [][ Step("registerUser") =>
          LET matching == Invitation(out'.req.hash, out'.req.email) \in invitations
              taken == Owned(users, out'.req.email)
          IN  /\ (out'.status = 204 \/ users' # users)
                   => (out'.req.payload /\ matching /\ ~taken)
              /\ out'.status = 204 =>
                   \E u \in users' \ users : u.email = out'.req.email
              /\ (RegisterStep /\ Returned /\ ~(matching /\ ~taken))
                   => /\ out'.status = (IF matching THEN 400 ELSE 403)
                      /\ UNCHANGED stores
                      /\ out'.deleted = {} ]_vars

\* a registration was refused with 403 for a hash whose invitation exists,
\* issued to another email
C3_Witness ==
    /\ out.req.op = "registerUser"
    /\ out.status = 403
    /\ out.req.email # ""
    /\ \E i \in invitations : i.hash = out.req.hash /\ i.email # out.req.email

----------------------------------------------------------------------------
\* C4: signinUser with non-empty email and password responds 200 with a
\* token for the user's id and a user object without password when an active
\* user with that email exists and the password verifies; otherwise it
\* responds 401 with the one body {status: 401, error: 'Wrong email or
\* password'} and creates no token.
C4_Signin ==
    [][ (Step("signinUser") /\ out'.req.payload /\ out'.req.email # ""
           /\ out'.req.password # "")
          => LET known == {u \in users : /\ u.email = out'.req.email
                                         /\ u.active
                                         /\ u.password = hashPassword(out'.req.password)}
             IN  /\ (Returned /\ known # {})
                      => /\ out'.status = 200
                         /\ \E d \in out'.data : \E u \in known :
                               /\ out'.data = {d}
                               /\ d.token = createToken(u.id)
                               /\ d.user.id = u.id
                               /\ d.user.email = u.email
                               /\ "password" \notin DOMAIN d.user
                 /\ (Returned /\ known = {})
                      => out' = Outcome(out'.req, 401, "Wrong email or password",
                                        {}, <<>>, {}, {})
                 /\ out'.status # 200 => out'.data = {}
                 /\ UNCHANGED stores ]_vars

\* a sign-in succeeded
C4_Witness ==
    /\ out.req.op = "signinUser"
    /\ out.status = 200
    /\ \E d \in out.data : \E u \in users : u.active /\ d.token = createToken(u.id)

----------------------------------------------------------------------------
\* C5: createUserInvitation responds 400 when the email is missing, is not a
\* valid email or is owned by a user, and then persists no invitation and
\* sends no mail; only otherwise it generates a fresh hash, persists the
\* invitation {email, hash} and then sends the mail for that email and hash
\* before it responds 204.
C5_CreateInvitation ==
    [][ Step("createUserInvitation") =>
          LET email == out'.req.email
              refused == email = "" \/ ~isEmail(email) \/ Owned(users, email)
              issued == Invitation(out'.req.hash, email)
          IN  /\ refused => /\ Returned => out'.status = 400
                            /\ invitations' = invitations
                            /\ out'.mailed = {}
              /\ out'.status = 400 => refused
              /\ (~refused /\ Returned) => out'.status = 204
              /\ out'.status = 204 =>
                   /\ \A i \in invitations : i.hash # out'.req.hash
                   /\ out'.req.hash = nextHash /\ nextHash' > nextHash
                   /\ invitations' = invitations \cup {issued}
                   /\ out'.mailed = {issued}
              /\ out'.mailed \subseteq invitations'
              /\ \A i \in invitations : i.hash < nextHash ]_vars

\* an invitation was created and its mail sent
C5_Witness ==
    /\ out.req.op = "createUserInvitation"
    /\ out.status = 204
    /\ out.mailed = {Invitation(out.req.hash, out.req.email)}
    /\ out.mailed \subseteq invitations

----------------------------------------------------------------------------
\* C6: unregisterUser responds 404 and changes nothing when no user has the
\* authenticated email; otherwise it deletes the user, invalidates cache key
\* 'user' and responds 204.  From then on no user has that email until a
\* registerUser request for it saves one, and signinUser with an email that no
\* user has responds 401.
C6_Unregister ==
    [][ /\ (Step("unregisterUser") /\ out'.req.email # "" /\ Returned)
            => IF ~Owned(users, out'.req.email)
               THEN out'.status = 404 /\ UNCHANGED stores /\ out'.deleted = {}
               ELSE /\ out'.status = 204
                    /\ out'.deleted = {"user"}
                    /\ ~Owned(users', out'.req.email)
                    /\ users' = {u \in users : u.email # out'.req.email}
                    /\ UNCHANGED <<invitations, nextHash, nextId>>
        /\ \A u \in users' \ users :
               Step("registerUser") /\ out'.req.email = u.email
        /\ (Step("signinUser") /\ ~Owned(users, out'.req.email))
            => /\ out'.status \in {0, 400, 401}
               /\ (Returned /\ out'.req.email # "" /\ out'.req.password # "")
                    => out'.status = 401 ]_vars

\* a user was unregistered
C6_Witness ==
    /\ out.req.op = "unregisterUser"
    /\ out.status = 204
    /\ nextId > 1
    /\ ~Owned(users, out.req.email)

----------------------------------------------------------------------------
\* C7

\* validateRegistrationHash(h) responds 204 exactly while an invitation with
\* hash h is stored, and modifies no store
C7_Validate ==
    (Step("validateRegistrationHash") /\ out'.req.hash # 0 /\ Returned)
        => /\ IF \E i \in invitations : i.hash = out'.req.hash
              THEN out'.status = 204
              ELSE out'.status = 403 /\ out'.error = "Invalid hash"
           /\ UNCHANGED stores

\* an invitation is stored from the 204 of createUserInvitation until a
\* registerUser request with its hash and email responds 204; after that no
\* invitation with its hash is stored again
C7_Lifecycle ==
    /\ (Step("createUserInvitation") /\ out'.status = 204)
          => Invitation(out'.req.hash, out'.req.email) \in invitations'
    /\ \A i \in invitations \ invitations' :
          /\ Step("registerUser") /\ out'.status = 204
          /\ out'.req.hash = i.hash /\ out'.req.email = i.email
    /\ (Step("registerUser") /\ out'.status = 204)
          => \A i \in invitations' : i.hash # out'.req.hash
    /\ \A i \in invitations' \ invitations : i.hash >= nextHash /\ i.hash < nextHash'
    /\ \A i \in invitations : i.hash < nextHash
    /\ (out.req.op = "registerUser" /\ out.status = 204
          /\ Step("validateRegistrationHash") /\ out'.req.hash = out.req.hash
          /\ Returned)
          => out'.status = 403 /\ out'.error = "Invalid hash"

\* the step is a signinUser request, right after a registerUser request that
\* responded 204, with the email and the password that were registered
C7_SigninAfterRegistration ==
    /\ out.req.op = "registerUser" /\ out.status = 204
    /\ Step("signinUser") /\ out'.req.payload /\ Returned
    /\ out'.req.email = out.req.email
    /\ out'.req.password = out.req.password

----------------------------------------------------------------------------
\* C8: registerUser responds 400 'Invalid request' whenever the body carries
\* no user payload or the payload has no email; a request without body.user is
\* answered 400, not forwarded to the error path.
C8_InvalidRequest ==
    [][ (Step("registerUser") /\ (~out'.req.payload \/ out'.req.email = ""))
            => /\ out'.status = 400
               /\ out'.error = "Invalid request"
               /\ out'.nexted = <<>> ]_vars

----------------------------------------------------------------------------
----------------------------------------------------------------------------
\* C10: under any interleaving of concurrent registerUser requests, one
\* invitation is consumed by at most one registration: no two users have the
\* same email and at most one of the requests for the same hash and email
\* responds 204.
C10_SingleConsumption ==
    /\ \A u1, u2 \in users : u1.email = u2.email => u1 = u2
    /\ \A r1, r2 \in ReqIds :
          (/\ r1 # r2
           /\ reqs[r1].status = 204 /\ reqs[r2].status = 204
           /\ reqs[r1].req.hash = reqs[r2].req.hash
           /\ reqs[r1].req.email = reqs[r2].req.email) => FALSE

====
